---- MODULE Spec2Model ----
(***************************************************************************)
(* create_archive.py: should_exclude (substring exclusion predicate) and   *)
(* create_zip (walk of the fixed include list into a zip archive).         *)
(* Path strings are TLA+ strings, handled as sequences of characters.      *)
(***************************************************************************)
EXTENDS Integers, Sequences, FiniteSets, TLC

\* ------------------------------------------------------------------------
\* Bounds of the model
\* ------------------------------------------------------------------------
\* largest number of filesystem entries that exist in the working directory
MaxNodes == 4
\* longest path string handed to should_exclude in SpecExclude
MaxLen == 5

\* ------------------------------------------------------------------------
\* Static configuration of the program
\* ------------------------------------------------------------------------
excludes ==
  << "node_modules", ".git", "dist", "build", ".config",
     "attached_assets", "public/uploads", "public/tech_profiles",
     "public/images", "public/assets", "server/tests",
     ".jpg", ".jpeg", ".png", ".gif", ".svg", ".webp", ".ico",
     ".pdf", ".xlsx", ".docx", ".txt", ".mp4", ".mov",
     ".tar.gz", ".zip", ".log" >>

includes ==
  << "client/src", "server", "shared/schema.ts", "package.json",
     "tsconfig.json", "drizzle.config.ts", "tailwind.config.ts",
     "components.json", "vite.config.ts", "postcss.config.js" >>

\* ------------------------------------------------------------------------
\* should_exclude
\* ------------------------------------------------------------------------
\* Python's `exclude in path_str` on two strings: a scan over the offsets
RECURSIVE StrFind(_, _, _)
StrFind(exclude, path_str, k) ==
  IF k + Len(exclude) - 1 > Len(path_str) THEN FALSE
  ELSE IF SubSeq(path_str, k, k + Len(exclude) - 1) = exclude THEN TRUE
  ELSE StrFind(exclude, path_str, k + 1)

StrIn(exclude, path_str) == StrFind(exclude, path_str, 1)

\* a loop that returns on its first iteration, match or not
ExcludeLoop_first(rules, path_str, k) ==
  IF k > Len(rules) THEN FALSE ELSE StrIn(rules[k], path_str)

\* the for loop of should_exclude over a rule list, from position k on:
\* returns True on the first rule that matches, False when the list ends
RECURSIVE ExcludeLoop(_, _, _)
ExcludeLoop(rules, path_str, k) ==
  IF k > Len(rules) THEN FALSE
  ELSE IF StrIn(rules[k], path_str) THEN TRUE
  ELSE ExcludeLoop(rules, path_str, k + 1)

should_exclude_with(rules, path_str) == ExcludeLoop(rules, path_str, 1)

\* the last segment of a path string
RECURSIVE BaseFrom(_, _)
BaseFrom(s, k) ==
  IF k = 0 THEN s
  ELSE IF SubSeq(s, k, k) = "/" THEN SubSeq(s, k + 1, Len(s))
  ELSE BaseFrom(s, k - 1)

\* a predicate applied to the entry's own name instead of its path
should_exclude_name(path_str) ==
  should_exclude_with(excludes, BaseFrom(path_str, Len(path_str)))

\* a rule is a true suffix of s
EndsWith(rule, s) ==
  Len(rule) <= Len(s) /\ SubSeq(s, Len(s) - Len(rule) + 1, Len(s)) = rule

\* a predicate that matches a rule only as the end of the path
should_exclude_suffix(path_str) ==
  \E k \in DOMAIN excludes : EndsWith(excludes[k], path_str)

should_exclude(path_str) == should_exclude_with(excludes, path_str)

\* ------------------------------------------------------------------------
\* Path strings
\* ------------------------------------------------------------------------
\* the character of s at position k (a one-character string)
CharAt(s, k) == SubSeq(s, k, k)

\* s.split("/"): the segments of s between the separators, from position k
\* on, with acc the segment read so far
RECURSIVE SplitFrom(_, _, _)
SplitFrom(s, k, acc) ==
  IF k > Len(s) THEN << acc >>
  ELSE IF CharAt(s, k) = "/" THEN << acc >> \o SplitFrom(s, k + 1, "")
  ELSE SplitFrom(s, k + 1, acc \o CharAt(s, k))

Split(s) == SplitFrom(s, 1, "")

\* "/".join(parts)
RECURSIVE JoinSep(_)
JoinSep(parts) ==
  IF Len(parts) = 0 THEN ""
  ELSE IF Len(parts) = 1 THEN parts[1]
  ELSE parts[1] \o "/" \o JoinSep(Tail(parts))

\* the segments that pathlib keeps: empty and "." segments are dropped
RECURSIVE KeepParts(_)
KeepParts(parts) ==
  IF Len(parts) = 0 THEN << >>
  ELSE IF parts[1] \in {"", "."} THEN KeepParts(Tail(parts))
  ELSE << parts[1] >> \o KeepParts(Tail(parts))

\* str(Path(s)) on a POSIX system
PathStr(s) ==
  LET body == JoinSep(KeepParts(Split(s)))
      abs  == Len(s) > 0 /\ CharAt(s, 1) = "/"
  IN  IF abs THEN "/" \o body
      ELSE IF body = "" THEN "." ELSE body

\* os.path.normpath on a relative POSIX path: "", "." dropped, ".." pops
RECURSIVE NormParts(_, _)
NormParts(parts, acc) ==
  IF Len(parts) = 0 THEN acc
  ELSE IF parts[1] \in {"", "."} THEN NormParts(Tail(parts), acc)
  ELSE IF parts[1] = ".." /\ Len(acc) > 0 /\ acc[Len(acc)] # ".."
       THEN NormParts(Tail(parts), SubSeq(acc, 1, Len(acc) - 1))
  ELSE NormParts(Tail(parts), Append(acc, parts[1]))

\* an entry stored under the file's name alone
ArcName_basename(arcname) == BaseFrom(arcname, Len(arcname))

\* the entry name ZipFile.write gives to arcname: normpath, then the leading
\* separators stripped (a relative path has none left after normpath)
ArcName(arcname) ==
  LET body == JoinSep(NormParts(Split(arcname), << >>))
  IN  IF body = "" THEN "." ELSE body

\* os.path.join(root, name) for a relative name
PathJoin(root, name) ==
  IF root = "" THEN name
  ELSE IF CharAt(root, Len(root)) = "/" THEN root \o name
  ELSE root \o "/" \o name

\* ------------------------------------------------------------------------
\* The working directory: a set of entries [dir, name, kind]
\* ------------------------------------------------------------------------
Entry(dir, name, kind) == [dir |-> dir, name |-> name, kind |-> kind]

EntryPath(e) == PathJoin(e.dir, e.name)

\* the entries a working directory of the model may hold
Candidates ==
  { Entry("", "client", "dir"),
    Entry("client", "src", "dir"),
    Entry("client/src", "App.tsx", "file"),
    Entry("client/src", "logo.png", "file"),
    Entry("", "server", "dir"),
    Entry("", "server", "file"),
    Entry("server", "index.ts", "file"),
    Entry("server", "notes.txt", "file"),
    Entry("server", "my.txt.backup", "file"),
    Entry("server", "tests", "dir"),
    Entry("server/tests", "foo.ts", "file"),
    Entry("server", "lib", "dir"),
    Entry("server/lib", "util.ts", "file"),
    Entry("server", "rebuild", "dir"),
    Entry("server/rebuild", "a.ts", "file"),
    Entry("", "shared", "dir"),
    Entry("shared", "schema.ts", "file"),
    Entry("", "package.json", "file"),
    Entry("", "tsconfig.json", "file"),
    Entry("", "drizzle.config.ts", "file"),
    Entry("", "tailwind.config.ts", "file"),
    Entry("", "components.json", "file"),
    Entry("", "vite.config.ts", "file"),
    Entry("", "postcss.config.js", "file"),
    Entry("", "README.md", "file") }

\* e can be created in the tree S: its directory exists and its path is free
CanAdd(S, e) ==
  /\ e \notin S
  /\ \A x \in S : EntryPath(x) # EntryPath(e)
  /\ \/ e.dir = ""
     \/ \E d \in S : d.kind = "dir" /\ EntryPath(d) = e.dir

\* the trees of at most n entries
RECURSIVE Trees(_)
Trees(n) ==
  IF n = 0 THEN { {} }
  ELSE LET prev == Trees(n - 1)
       IN  prev \cup { S \cup {e} : <<S, e>> \in
                         { p \in prev \X Candidates : CanAdd(p[1], p[2]) } }

FileSystems == Trees(MaxNodes)

\* Path(p).is_file() and Path(p).is_dir() in the tree S
is_file(S, p) == \E e \in S : e.kind = "file" /\ EntryPath(e) = p

is_dir(S, p) == \E e \in S : e.kind = "dir" /\ EntryPath(e) = p

\* the names os.scandir(top) yields, by kind
ScanNames(S, top, kind) == { e.name : e \in { x \in S : x.dir = top /\ x.kind = kind } }

\* the orders in which a directory listing can produce a set of names
RECURSIVE Listings(_)
Listings(names) ==
  IF names = {} THEN { << >> }
  ELSE UNION { { << n >> \o rest : rest \in Listings(names \ {n}) } : n \in names }

RECURSIVE Reverse(_)
Reverse(q) == IF Len(q) = 0 THEN << >> ELSE Append(Reverse(Tail(q)), q[1])

\* [os.path.join(top, d) for d in ds]
RECURSIVE JoinAll(_, _)
JoinAll(top, ds) ==
  IF Len(ds) = 0 THEN << >>
  ELSE << PathJoin(top, ds[1]) >> \o JoinAll(top, Tail(ds))

Range(q) == { q[k] : k \in DOMAIN q }

\* ------------------------------------------------------------------------
\* State
\* ------------------------------------------------------------------------
VARIABLES
  fs,         \* the working directory
  pc,         \* position of create_zip
  zip,        \* the ZipFile handle: "none", "open", "closed"
  archive,    \* entry names of the archive, in the order written
  i,          \* position in includes of the for loop (0 before the loop)
  stack,      \* os.walk: directories still to visit, next one last
  root,       \* os.walk: the directory yielded
  dirs,       \* os.walk: its sub-directories, after line 51
  files,      \* os.walk: its files not yet handled
  cur,        \* the file zipf.write is writing ("" if none)
  ret,        \* where zipf.write was called from: "loop" or "files"
  summary,    \* the "Created ..." line was printed
  scanned,    \* directories os.scandir listed
  unlisted,   \* directories os.scandir failed on
  evaluated,  \* path strings passed to should_exclude by create_zip
  failed,     \* the file whose zipf.write raised ("" if none)
  arg,        \* SpecExclude: the path string passed to should_exclude
  rules,      \* SpecExclude: a reordering of excludes
  res,        \* SpecExclude: should_exclude(arg)
  resAlt      \* SpecExclude: the loop of should_exclude run over rules

walkvars == << stack, root, dirs, files >>
predvars == << arg, rules, res, resAlt >>
vars == << fs, pc, zip, archive, i, stack, root, dirs, files, cur, ret,
           summary, scanned, unlisted, evaluated, failed,
           arg, rules, res, resAlt >>

Init ==
  /\ fs \in FileSystems
  /\ pc = "start"
  /\ zip = "none"
  /\ archive = << >>
  /\ i = 0
  /\ stack = << >>
  /\ root = ""
  /\ dirs = << >>
  /\ files = << >>
  /\ cur = ""
  /\ ret = ""
  /\ summary = FALSE
  /\ scanned = {}
  /\ unlisted = {}
  /\ evaluated = {}
  /\ failed = ""
  /\ arg = ""
  /\ rules = excludes
  /\ res = FALSE
  /\ resAlt = FALSE

\* ------------------------------------------------------------------------
\* create_zip
\* ------------------------------------------------------------------------
\* line 40: the archive is created (truncated) and the loop starts
Open ==
  /\ pc = "start"
  /\ zip' = "open"
  /\ archive' = << >>
  /\ i' = 1
  /\ pc' = "loop"
  /\ UNCHANGED << fs, walkvars, cur, ret, summary, scanned, unlisted,
                  evaluated, failed, predvars >>

\* the root list walked from its end
IncludePath_reversed(k) == PathStr(includes[Len(includes) + 1 - k])

\* line 42: path = Path(include), used through str(path)
IncludePath(k) == PathStr(includes[k])

\* lines 44-47: the include is an existing file
IncludeFile ==
  /\ pc = "loop"
  /\ i <= Len(includes)
  /\ is_file(fs, IncludePath(i))
  /\ evaluated' = evaluated \cup { IncludePath(i) }
  /\ IF ~should_exclude(IncludePath(i))
       THEN /\ cur' = IncludePath(i)
            /\ ret' = "loop"
            /\ pc' = "write"
            /\ i' = i
       ELSE /\ i' = i + 1
            /\ UNCHANGED << cur, ret, pc >>
  /\ UNCHANGED << fs, zip, archive, walkvars, summary, scanned, unlisted,
                  failed, predvars >>

\* lines 48-49: the include is a directory: os.walk(path) starts
IncludeDir ==
  /\ pc = "loop"
  /\ i <= Len(includes)
  /\ ~is_file(fs, IncludePath(i))
  /\ is_dir(fs, IncludePath(i))
  /\ stack' = << IncludePath(i) >>
  /\ pc' = "walk"
  /\ UNCHANGED << fs, zip, archive, i, root, dirs, files, cur, ret, summary,
                  scanned, unlisted, evaluated, failed, predvars >>

\* a missing include that raises
IncludeMissing_raise ==
  /\ pc = "loop"
  /\ i <= Len(includes)
  /\ ~is_file(fs, IncludePath(i))
  /\ ~is_dir(fs, IncludePath(i))
  /\ zip' = "closed"
  /\ pc' = "aborted"
  /\ UNCHANGED << fs, archive, i, walkvars, cur, ret, summary, scanned,
                  unlisted, evaluated, failed, predvars >>

\* lines 44, 48: the include is neither: the loop goes on
IncludeMissing ==
  /\ pc = "loop"
  /\ i <= Len(includes)
  /\ ~is_file(fs, IncludePath(i))
  /\ ~is_dir(fs, IncludePath(i))
  /\ i' = i + 1
  /\ UNCHANGED << fs, pc, zip, archive, walkvars, cur, ret, summary, scanned,
                  unlisted, evaluated, failed, predvars >>

\* a filter whose result is bound to a new list: os.walk's dirs is unchanged
FilterDirs_keep(top, ds) == ds

\* line 51: dirs[:] = [d for d in dirs if not should_exclude(join(root, d))]
RECURSIVE FilterDirs(_, _)
FilterDirs(top, ds) ==
  IF Len(ds) = 0 THEN << >>
  ELSE IF should_exclude(PathJoin(top, ds[1])) THEN FilterDirs(top, Tail(ds))
  ELSE << ds[1] >> \o FilterDirs(top, Tail(ds))

\* line 49: os.walk takes the next directory and lists it; the body of the
\* for loop then filters its sub-directories (line 51)
WalkScan ==
  /\ pc = "walk"
  /\ stack # << >>
  /\ LET top == stack[Len(stack)]
     IN  \E ds \in Listings(ScanNames(fs, top, "dir")),
            nondirs \in Listings(ScanNames(fs, top, "file")) :
           /\ root' = top
           /\ dirs' = FilterDirs(top, ds)
           /\ files' = nondirs
           /\ evaluated' = evaluated \cup Range(JoinAll(top, ds))
           /\ scanned' = scanned \cup { top }
  /\ stack' = SubSeq(stack, 1, Len(stack) - 1)
  /\ pc' = "files"
  /\ UNCHANGED << fs, zip, archive, i, cur, ret, summary, unlisted, failed,
                  predvars >>

\* a walk that lets the listing error out
WalkScanError_raise ==
  /\ pc = "walk"
  /\ stack # << >>
  /\ unlisted' = unlisted \cup { stack[Len(stack)] }
  /\ zip' = "closed"
  /\ pc' = "aborted"
  /\ UNCHANGED << fs, archive, i, walkvars, cur, ret, summary, scanned,
                  evaluated, failed, predvars >>

\* line 49: os.scandir raises OSError inside os.walk; with onerror=None the
\* error is dropped and the walk goes on with the next directory
WalkScanError ==
  /\ pc = "walk"
  /\ stack # << >>
  /\ unlisted' = unlisted \cup { stack[Len(stack)] }
  /\ stack' = SubSeq(stack, 1, Len(stack) - 1)
  /\ UNCHANGED << fs, pc, zip, archive, i, root, dirs, files, cur, ret,
                  summary, scanned, evaluated, failed, predvars >>

\* lines 53-57: the next file of the directory
WalkFile ==
  /\ pc = "files"
  /\ files # << >>
  /\ LET file_path == PathJoin(root, Head(files))
     IN  /\ evaluated' = evaluated \cup { file_path }
         /\ IF ~should_exclude(file_path)
              THEN /\ cur' = file_path
                   /\ ret' = "files"
                   /\ pc' = "write"
                   /\ files' = files
              ELSE /\ files' = Tail(files)
                   /\ UNCHANGED << cur, ret, pc >>
  /\ UNCHANGED << fs, zip, archive, i, stack, root, dirs, summary, scanned,
                  unlisted, failed, predvars >>

\* line 49: the body is over; os.walk queues the sub-directories left in dirs
WalkDescend ==
  /\ pc = "files"
  /\ files = << >>
  /\ stack' = stack \o Reverse(JoinAll(root, dirs))
  /\ root' = ""
  /\ dirs' = << >>
  /\ pc' = "walk"
  /\ UNCHANGED << fs, zip, archive, i, files, cur, ret, summary, scanned,
                  unlisted, evaluated, failed, predvars >>

\* line 49: os.walk is exhausted: next include
WalkEnd ==
  /\ pc = "walk"
  /\ stack = << >>
  /\ i' = i + 1
  /\ pc' = "loop"
  /\ UNCHANGED << fs, zip, archive, walkvars, cur, ret, summary, scanned,
                  unlisted, evaluated, failed, predvars >>

\* lines 47, 57: zipf.write(path, path) returns
WriteOk ==
  /\ pc = "write"
  /\ archive' = Append(archive, ArcName(cur))
  /\ cur' = ""
  /\ ret' = ""
  /\ IF ret = "loop"
       THEN /\ i' = i + 1
            /\ pc' = "loop"
            /\ files' = files
       ELSE /\ files' = Tail(files)
            /\ pc' = "files"
            /\ i' = i
  /\ UNCHANGED << fs, zip, stack, root, dirs, summary, scanned, unlisted,
                  evaluated, failed, predvars >>

\* a failed write that is caught: the file is skipped and the run goes on
WriteError_skip ==
  /\ pc = "write"
  /\ failed' = cur
  /\ cur' = ""
  /\ ret' = ""
  /\ IF ret = "loop"
       THEN /\ i' = i + 1
            /\ pc' = "loop"
            /\ files' = files
       ELSE /\ files' = Tail(files)
            /\ pc' = "files"
            /\ i' = i
  /\ UNCHANGED << fs, zip, archive, stack, root, dirs, summary, scanned,
                  unlisted, evaluated, predvars >>

\* lines 47, 57: zipf.write raises; the with block closes the archive and
\* the exception leaves create_zip
WriteError ==
  /\ pc = "write"
  /\ failed' = cur
  /\ cur' = ""
  /\ zip' = "closed"
  /\ pc' = "aborted"
  /\ UNCHANGED << fs, archive, i, walkvars, ret, summary, scanned, unlisted,
                  evaluated, predvars >>

\* an archive that is not closed before the summary
Close_leak ==
  /\ pc = "loop"
  /\ i > Len(includes)
  /\ pc' = "summary"
  /\ UNCHANGED << fs, zip, archive, i, walkvars, cur, ret, summary, scanned,
                  unlisted, evaluated, failed, predvars >>

\* line 40: the for loop is over; the with block closes the archive
Close ==
  /\ pc = "loop"
  /\ i > Len(includes)
  /\ zip' = "closed"
  /\ pc' = "summary"
  /\ UNCHANGED << fs, archive, i, walkvars, cur, ret, summary, scanned,
                  unlisted, evaluated, failed, predvars >>

\* lines 60-62: the size is read and the summary printed
Summary ==
  /\ pc = "summary"
  /\ summary' = TRUE
  /\ pc' = "done"
  /\ UNCHANGED << fs, zip, archive, i, walkvars, cur, ret, scanned, unlisted,
                  evaluated, failed, predvars >>

Next ==
  \/ Open
  \/ IncludeFile
  \/ IncludeDir
  \/ IncludeMissing
  \/ WalkScan
  \/ WalkScanError
  \/ WalkFile
  \/ WalkDescend
  \/ WalkEnd
  \/ WriteOk
  \/ WriteError
  \/ Close
  \/ Summary

Spec == Init /\ [][Next]_vars

\* ------------------------------------------------------------------------
\* should_exclude on its own: every short path string over a few characters
\* ------------------------------------------------------------------------
Alphabet == { ".", "g", "i", "t", "/" }

\* the strings over Alphabet of length at most n
RECURSIVE Strings(_)
Strings(n) ==
  IF n = 0 THEN { "" }
  ELSE LET prev == Strings(n - 1)
       IN  prev \cup { p[1] \o p[2] : p \in prev \X Alphabet }

\* the rule list started at position k + 1 and wrapped around
Rotate(q, k) == SubSeq(q, k + 1, Len(q)) \o SubSeq(q, 1, k)

\* reorderings of the rule list
Reorderings ==
  { Reverse(excludes) } \cup { Rotate(excludes, k) : k \in { 2, 15 } }

\* the path strings should_exclude is tried on: every short string, and the
\* paths of the entries a working directory may hold
PathStrings == Strings(MaxLen) \cup { EntryPath(e) : e \in Candidates }

InitExclude ==
  /\ arg \in PathStrings
  /\ rules \in Reorderings
  /\ res = FALSE
  /\ resAlt = FALSE
  /\ pc = "call"
  /\ fs = {}
  /\ zip = "none"
  /\ archive = << >>
  /\ i = 0
  /\ stack = << >>
  /\ root = ""
  /\ dirs = << >>
  /\ files = << >>
  /\ cur = ""
  /\ ret = ""
  /\ summary = FALSE
  /\ scanned = {}
  /\ unlisted = {}
  /\ evaluated = {}
  /\ failed = ""

\* should_exclude(arg) is called; the same loop is run over the reordering
CallExclude ==
  /\ pc = "call"
  /\ res' = should_exclude(arg)
  /\ resAlt' = should_exclude_with(rules, arg)
  /\ pc' = "returned"
  /\ UNCHANGED << fs, zip, archive, i, walkvars, cur, ret, summary, scanned,
                  unlisted, evaluated, failed, arg, rules >>

NextExclude == CallExclude

SpecExclude == InitExclude /\ [][NextExclude]_vars

\* ------------------------------------------------------------------------
\* Vocabulary of the properties
\* ------------------------------------------------------------------------
\* pat occurs in p: p is some prefix, then pat, then some suffix
Occurs(pat, p) ==
  \E a \in 0..(Len(p) - Len(pat)) :
    p = SubSeq(p, 1, a) \o pat \o SubSeq(p, a + Len(pat) + 1, Len(p))

\* p contains at least one pattern of the configured rule set
Matches(p) == \E pat \in Range(excludes) : Occurs(pat, p)

\* path p lies (at any depth) under directory d
Under(p, d) ==
  /\ Len(p) > Len(d) + 1
  /\ SubSeq(p, 1, Len(d) + 1) = d \o "/"

\* C1: should_exclude(p) is true exactly when some configured pattern occurs
\* as a substring anywhere in p, and the order of the patterns does not
\* change the result.
C1_SubstringIff ==
  pc = "returned" => /\ res = Matches(arg)
                     /\ resAlt = res

\* a pattern inside a file name, neither a whole segment nor a suffix,
\* found by the loop run over a reordered rule list as well
C1_Witness ==
  /\ pc = "returned"
  /\ arg = "server/my.txt.backup"
  /\ res = TRUE
  /\ resAlt = TRUE
  /\ rules # excludes

\* the files and the directories of the working directory, as path strings
FilePaths == { EntryPath(e) : e \in { x \in fs : x.kind = "file" } }

DirPaths == { EntryPath(e) : e \in { x \in fs : x.kind = "dir" } }

\* the position in the root list of the entry that p is, or lies under
\* (0 if there is none)
RootOf(p) ==
  LET ks == { k \in DOMAIN includes : p = includes[k] \/ Under(p, includes[k]) }
  IN  IF ks = {} THEN 0 ELSE CHOOSE k \in ks : TRUE

\* p is a file reachable from the root list
Reachable(p) == p \in FilePaths /\ RootOf(p) # 0

\* the root entry at position k names nothing that exists
RootMissing(k) == includes[k] \notin FilePaths \cup DirPaths

\* number of archive entries stored under name
Count(name) == Cardinality({ n \in DOMAIN archive : archive[n] = name })

\* some directory from the root of p down to its parent could not be listed
BelowUnlisted(p) == \E d \in unlisted : Under(p, d)

C4_State ==
  /\ \A k \in DOMAIN includes : RootMissing(k) =>
       /\ \A n \in DOMAIN archive : RootOf(archive[n]) # k
       /\ \A p \in evaluated : RootOf(p) # k
       /\ pc = "aborted" => i # k
  /\ pc = "done" => (summary /\ i = Len(includes) + 1)

\* the step taken at a missing root: on to the next root, nothing else
C4_Step ==
  (pc = "loop" /\ i <= Len(includes) /\ RootMissing(i)) =>
    /\ pc' = "loop"
    /\ i' = i + 1
    /\ UNCHANGED << zip, archive, failed, summary >>

\* C4: a root entry that names nothing existing raises no error, contributes
\* nothing to the archive, and the run goes on through the later roots to
\* the summary.
C4_MissingRootSkipped == [] C4_State /\ [][C4_Step]_vars

\* the first three roots are missing, a later one was archived
C4_Witness ==
  /\ pc = "done"
  /\ summary
  /\ RootMissing(1) /\ RootMissing(2) /\ RootMissing(3)
  /\ "package.json" \in Range(archive)

\* C5: files are written in the declaration order of the roots, one at a
\* time: nothing of a later root is visited before the files of the earlier
\* roots are written.
C5_RootOrder ==
  /\ \A a, b \in DOMAIN archive :
       a < b => RootOf(archive[a]) <= RootOf(archive[b])
  /\ \A n \in DOMAIN archive : RootOf(archive[n]) \in 1..i
  /\ \A p \in evaluated : RootOf(p) \in 1..i
  /\ pc = "write" => /\ cur # ""
                     /\ RootOf(cur) = i
                     /\ cur \notin Range(archive)
  /\ pc # "write" => cur = ""
  /\ pc # "aborted" =>
       \A p \in evaluated \cap FilePaths :
         (~Matches(p) /\ p # cur) => p \in Range(archive)

\* files of two roots are in the archive and a file of a third is being written
C5_Witness ==
  /\ pc = "write"
  /\ Len(archive) = 2
  /\ RootOf(archive[1]) < RootOf(archive[2])
  /\ RootOf(archive[2]) < RootOf(cur)

\* C6: a failed write is fatal: the run stops at that file, nothing more is
\* visited or written, and the summary is never printed.
C6_WriteFailureFatal ==
  failed # "" =>
    /\ pc = "aborted"
    /\ ~summary
    /\ ~ENABLED Next
    /\ failed \in evaluated
    /\ \A p \in evaluated : RootOf(p) <= RootOf(failed)

\* the write of tsconfig.json failed after package.json was written, with
\* components.json and later roots left unvisited
C6_Witness ==
  /\ failed = "tsconfig.json"
  /\ archive = << "package.json" >>
  /\ "components.json" \in FilePaths
  /\ "components.json" \notin evaluated
  /\ i < Len(includes)

C7_State ==
  /\ \A d \in unlisted :
       /\ d \notin scanned
       /\ \A p \in evaluated \cup scanned \cup unlisted : ~Under(p, d)
       /\ \A n \in DOMAIN archive : ~Under(archive[n], d)
  /\ pc = "aborted" => failed # ""

\* the step on which a listing fails: the walk is still running
C7_Step ==
  unlisted' # unlisted =>
    /\ pc' = "walk"
    /\ UNCHANGED << zip, archive, i, failed, evaluated, scanned >>

C9_State ==
  /\ zip = "none" <=> pc = "start"
  /\ zip = "none" => (i = 0 /\ evaluated = {} /\ scanned = {} /\ archive = << >>)
  /\ pc \in { "loop", "walk", "files", "write" } => zip = "open"
  /\ pc \in { "summary", "done" } => (zip = "closed" /\ i = Len(includes) + 1)
  /\ summary => pc = "done"

\* no entry is written to a closed archive, and a closed archive stays closed
C9_Step ==
  zip = "closed" => (archive' = archive /\ zip' = "closed")

\* C9: the archive is created before any root is examined, nothing is
\* written after it is closed, it is closed on every normal completion, and
\* the summary comes only after the close and after every root.
C9_Lifecycle == [] C9_State /\ [][C9_Step]_vars

\* a run that wrote entries, closed the archive and printed the summary
C9_Witness ==
  /\ pc = "done"
  /\ summary
  /\ zip = "closed"
  /\ Len(archive) = 3

\* the root entries that name files and contain ".config"
ConfigRootFiles ==
  { "drizzle.config.ts", "tailwind.config.ts", "vite.config.ts",
    "postcss.config.js" }

\* the root entries that name files and contain no pattern
PlainRootFiles ==
  { "shared/schema.ts", "package.json", "tsconfig.json", "components.json" }

\* C10: the four *.config.* root files are never written to the archive,
\* and the only file roots that produce an entry are shared/schema.ts,
\* package.json, tsconfig.json and components.json.
C10_ConfigRootsNeverArchived ==
  \A n \in DOMAIN archive :
    /\ archive[n] \notin ConfigRootFiles
    /\ RootOf(archive[n]) >= 3 => archive[n] \in PlainRootFiles

\* two of the config files exist beside two plain root files
C10_Witness ==
  /\ pc = "done"
  /\ FilePaths = { "drizzle.config.ts", "postcss.config.js", "package.json",
                   "components.json" }
  /\ archive = << "package.json", "components.json" >>

====
